---- MODULE Spec2Model ----
(***************************************************************************)
(* Collision and boundary-response core of the kart simulation.            *)
(*                                                                         *)
(* Real numbers are fixed-point integers: one world unit is SCALE.  The    *)
(* vectors drawn as inputs are axis-aligned or multiples of the 3-4-5      *)
(* triple, so every length, normalisation and reflection below is exact    *)
(* (no division leaves a remainder).                                       *)
(***************************************************************************)
EXTENDS Integers, Sequences, FiniteSets, TLC

VARIABLES scene, lastChange, groundOnly, raycaster, direction, origin, kartRaycaster, wheel, call, inputs, queries, probes, result

vars == <<scene, lastChange, groundOnly, raycaster, direction, origin, kartRaycaster, wheel, call, inputs, queries, probes, result>>

(***************************************************************************)
(* Bounds of the model.                                                    *)
(***************************************************************************)
\* longest list of hits one ray query returns
MaxHits == 2
\* largest speed, in world units, of a velocity drawn as an input
MaxSpeed == 3
\* most children of a scene handed to getTrackBoundaries
MaxChildren == 3

\* fixed-point unit: 1.0
SCALE == 100 * 100

(***************************************************************************)
(* three.js Vector3, as the source uses it.                                *)
(***************************************************************************)
Vec(a, b, c) == [x |-> a, y |-> b, z |-> c]

Zero == Vec(0, 0, 0)

Add(u, v) == Vec(u.x + v.x, u.y + v.y, u.z + v.z)

Sub(u, v) == Vec(u.x - v.x, u.y - v.y, u.z - v.z)

\* multiplyScalar by the fixed-point number s
MultiplyScalar(v, s) == Vec((v.x * s) \div SCALE, (v.y * s) \div SCALE, (v.z * s) \div SCALE)

Negate(v) == Vec(0 - v.x, 0 - v.y, 0 - v.z)

Dot(u, v) == (u.x * v.x + u.y * v.y + u.z * v.z) \div SCALE

RECURSIVE SqrtSearch(_, _, _)
SqrtSearch(n, lo, hi) ==
    IF lo >= hi THEN lo
    ELSE LET mid == (lo + hi + 1) \div 2
         IN IF mid * mid <= n THEN SqrtSearch(n, mid, hi) ELSE SqrtSearch(n, lo, mid - 1)

\* floor of the square root
Sqrt(n) == SqrtSearch(n, 0, 46340)

\* Vector3.length()
Length(v) == Sqrt(v.x * v.x + v.y * v.y + v.z * v.z)

\* Vector3.normalize(): divideScalar(length() || 1), so the zero vector stays zero
Normalize(v) ==
    LET len == Length(v)
        d == IF len = 0 THEN SCALE ELSE len
    IN Vec((v.x * SCALE) \div d, (v.y * SCALE) \div d, (v.z * SCALE) \div d)

\* Vector3.reflect(normal): v - 2 (v . n) n
Reflect(v, n) == Sub(v, MultiplyScalar(n, 2 * Dot(v, n)))

Abs(a) == IF a < 0 THEN 0 - a ELSE a

(***************************************************************************)
(* Object names: strings as sequences of characters, so that includes()    *)
(* is a real substring search.  A name may be missing (undefined).         *)
(***************************************************************************)
Str(s) == [has |-> TRUE, s |-> s]

Undefined == [has |-> FALSE, s |-> <<>>]

\* String.prototype.includes
Includes(s, sub) ==
    \E i \in 0..(Len(s) - Len(sub)) : SubSeq(s, i + 1, i + Len(sub)) = sub

\* JavaScript truthiness of a name: undefined and "" are falsy
Truthy_mut(name) == TRUE

\* the truthiness of hit.object.name: a string that is not empty
Truthy(name) == name.has /\ name.s # <<>>

S_ground == <<"g", "r", "o", "u", "n", "d">>

S_wall == <<"w", "a", "l", "l">>

S_barrier == <<"b", "a", "r", "r", "i", "e", "r">>

S_block == <<"b", "l", "o", "c", "k">>

S_ground_dirt == S_ground \o <<" ", "d", "i", "r", "t">>

S_block_wall == S_block \o <<" ">> \o S_wall

S_not_collision == <<"n", "o", "t", " ", "c", "o", "l", "l", "i", "s", "i", "o", "n">>

S_Ground == <<"G", "r", "o", "u", "n", "d">>

S_wall_ground == S_wall \o <<" ">> \o S_ground

S_ground_dirt_2 == S_ground_dirt \o <<" ", "2">>

\* The scene objects the model draws from: the fixtures of the test suites, and
\* names that probe case, priority, suffixes, the empty and the missing name.
\* face: the face normal a hit on the object carries (meshes), or none (lines, points).
Objects ==
    << [name |-> Str(S_ground),        face |-> [has |-> TRUE,  normal |-> Vec(0, SCALE, 0)]],
       [name |-> Str(S_ground_dirt),   face |-> [has |-> FALSE, normal |-> Zero]],
       [name |-> Str(S_wall),          face |-> [has |-> TRUE,  normal |-> Vec(0, 0, SCALE)]],
       [name |-> Str(S_barrier),       face |-> [has |-> FALSE, normal |-> Zero]],
       [name |-> Str(S_block_wall),    face |-> [has |-> TRUE,  normal |-> Vec(SCALE, 0, 0)]],
       [name |-> Str(S_not_collision), face |-> [has |-> TRUE,  normal |-> Vec(0, SCALE, 0)]],
       [name |-> Str(S_Ground),        face |-> [has |-> TRUE,  normal |-> Vec(0, SCALE, 0)]],
       [name |-> Str(S_wall_ground),   face |-> [has |-> TRUE,  normal |-> Vec(0, SCALE, 0)]],
       [name |-> Str(S_ground_dirt_2), face |-> [has |-> TRUE,  normal |-> Vec(0, SCALE, 0)]],
       [name |-> Str(<<>>),            face |-> [has |-> TRUE,  normal |-> Vec(0, SCALE, 0)]],
       [name |-> Undefined,            face |-> [has |-> TRUE,  normal |-> Vec(0, SCALE, 0)]] >>

Name(o) == Objects[o].name

\* scene.children of the scenes the model starts from
Scenes ==
    { <<>>,
      <<1, 6, 3>>,
      <<6, 4, 2>>,
      <<8, 5, 7>>,
      <<9, 10>>,
      <<11, 1>> }

Range(f) == {f[i] : i \in DOMAIN f}

(***************************************************************************)
(* The Spatial Query Provider: Raycaster.intersectObjects.  It is external *)
(* code; what the model keeps of it is its contract: the hits lie on the   *)
(* ray, no farther than far, nearest first, on objects of the scene, and   *)
(* in first-hit-only mode at most one per object.                          *)
(***************************************************************************)
\* hit distances the provider may report
Dists == {SCALE \div 2, 2 * SCALE, 5 * SCALE}

Hit(ray, o, d) ==
    [object |-> o, distance |-> d, point |-> Add(ray.origin, MultiplyScalar(ray.direction, d))]

IntersectObjects(ray, children) ==
    LET cands == {Hit(ray, o, d) : o \in Range(children), d \in {e \in Dists : e <= ray.far}}
    IN UNION { { hs \in [1..n -> cands] :
                   \A i, j \in 1..n :
                       i < j => /\ hs[i].distance <= hs[j].distance
                                /\ (ray.firstHitOnly => hs[i].object # hs[j].object) }
               : n \in 0..MaxHits }

Down == Vec(0, 0 - SCALE, 0)

\* Raycaster.far of a new Raycaster()
Infinity == 2147483647

(***************************************************************************)
(* Inputs.                                                                 *)
(***************************************************************************)
Positions == {Zero, Vec(SCALE, 2 * SCALE, 0 - 3 * SCALE)}

Units == {Vec(0, 0, 0 - SCALE), Vec(SCALE, 0, 0), Vec(6 * (SCALE \div 10), 0, 0 - 8 * (SCALE \div 10))}

\* speeds of the probe's velocities: 0, 0.05, 0.1 and the largest
ProbeSpeeds == {0, SCALE \div 20, SCALE \div 10, MaxSpeed * SCALE}

\* headings of the probe's velocities: along -z, and oblique
ProbeUnits == {Vec(0, 0, 0 - SCALE), Vec(6 * (SCALE \div 10), 0, 0 - 8 * (SCALE \div 10))}

ProbeVelocities == {MultiplyScalar(u, s) : u \in ProbeUnits, s \in ProbeSpeeds}

LookAheads == {2 * SCALE, SCALE}

\* speeds of the incoming velocities of a bounce: 0, 0.125 and whole units
BounceSpeeds == {0, SCALE \div 8} \cup {k * SCALE : k \in 1..MaxSpeed}

BounceVelocities == {MultiplyScalar(u, s) : u \in Units, s \in BounceSpeeds}

HitNormals == {Vec(0, 0, SCALE), Vec(SCALE, 0, 0), Vec(6 * (SCALE \div 10), 0, 8 * (SCALE \div 10))}

HitPoints == {Zero, Vec(0, 0, 0 - 5 * SCALE)}

BounceStrengths == {0, SCALE \div 2, 8 * (SCALE \div 10), SCALE}

MaxDistances == {3 * SCALE, SCALE}

\* world positions of the wheel mount
Mounts == {Vec(0, 25 * (SCALE \div 10), 0), Vec(0, 22 * (SCALE \div 10), 0)}

(***************************************************************************)
(* State.                                                                  *)
(*   scene          scene.children, as object ids                          *)
(*   lastChange     the last change of scene.children made by the game:    *)
(*                  what was done, to which object, the children before it *)
(*   groundOnly     the ground-only variant of collisionDetection run      *)
(*                  beside the unified one: its module-level raycaster and *)
(*                  scratch vectors, and what it did on the last call      *)
(*   raycaster      the module-level Raycaster of collisionDetection       *)
(*   direction, origin   the module-level scratch vectors                  *)
(*   kartRaycaster  the Raycaster of the kart's ground detection           *)
(*   wheel          wheel.current: position.y and isOnDirt                 *)
(*   call           the last call: its name, its arguments, the wheel      *)
(*                  as it was when the call began                          *)
(*   inputs         the caller's argument vectors, as the last call left   *)
(*                  them                                                   *)
(*   queries        the ray queries the last call issued, with their hits  *)
(*   result         what the last call returned                            *)
(***************************************************************************)
NoCall ==
    [op |-> "none", position |-> Zero, velocity |-> Zero, lookAhead |-> 0,
     hitPoint |-> Zero, hitNormal |-> Zero, strength |-> 0, maxDistance |-> 0,
     mount |-> Zero, wheelBefore |-> [y |-> 0, isOnDirt |-> FALSE], sceneBefore |-> <<>>]

\* the vectors a caller hands over: position, velocity, hit normal
NoInputs == [position |-> Zero, velocity |-> Zero, hitNormal |-> Zero]

Null == [kind |-> "null"]

NewRaycaster == [origin |-> Zero, direction |-> Vec(0, 0, 0 - SCALE), far |-> Infinity, firstHitOnly |-> FALSE]

MockRaycaster == [origin |-> Zero, direction |-> Zero, far |-> 3 * SCALE, firstHitOnly |-> TRUE]

InitWith(scenes) ==
    /\ scene \in scenes
    /\ lastChange = [op |-> "none", object |-> 0, before |-> scene]
    /\ raycaster = NewRaycaster
    /\ groundOnly = [raycaster |-> NewRaycaster, direction |-> Zero, origin |-> Zero,
                     op |-> "none", queries |-> <<>>, result |-> [kind |-> "none"]]
    /\ direction = Zero
    /\ origin = Zero
    /\ kartRaycaster = MockRaycaster
    /\ wheel = [y |-> 0, isOnDirt |-> FALSE]
    /\ call = NoCall
    /\ inputs = NoInputs
    /\ queries = <<>>
    /\ probes = <<>>
    /\ result = [kind |-> "none"]

Init == InitWith(Scenes)

SceneChildren_cached == lastChange.before

\* scene.children, read when the call reads it
SceneChildren == scene

\* Calls are strictly sequential: one begins only when no other is under way.
Idle == call.op = "none"

\* The caller takes the returned value; nothing of the call outlives the frame
\* but the module-level objects and the wheel.
Consume ==
    /\ call.op # "none"
    /\ call' = NoCall
    /\ inputs' = NoInputs
    /\ queries' = <<>>
    /\ probes' = <<>>
    /\ result' = [kind |-> "none"]
    /\ groundOnly' = [groundOnly EXCEPT !.op = "none", !.queries = <<>>,
                                        !.result = [kind |-> "none"]]
    /\ UNCHANGED <<scene, lastChange, raycaster, direction, origin, kartRaycaster, wheel>>

(***************************************************************************)
(* Vector3 objects by reference.  A frame maps the names of the vectors a  *)
(* function can reach (its parameters, the module-level scratch vectors,   *)
(* its locals) to their values; a mutating method writes the vector it is  *)
(* called on.                                                              *)
(***************************************************************************)
\* dst.copy(src)
CopyAt(f, dst, src) == [f EXCEPT ![dst] = f[src]]

\* c.normalize()
NormalizeAt(f, c) == [f EXCEPT ![c] = Normalize(@)]

\* c.multiplyScalar(s)
MultiplyScalarAt(f, c, s) == [f EXCEPT ![c] = MultiplyScalar(@, s)]

\* c.reflect(n)
ReflectAt(f, c, n) == [f EXCEPT ![c] = Reflect(@, f[n])]

\* c.y += dy
AddYAt(f, c, dy) == [f EXCEPT ![c] = [@ EXCEPT !.y = @ + dy]]

CloneCell_mut(src, fresh) == src

\* src.clone(): the vector the expression denotes is a new one
CloneCell(src, fresh) == fresh

\* src.clone(), the new vector being the local fresh
CloneAt(f, src, fresh) == CopyAt(f, CloneCell(src, fresh), src)

(***************************************************************************)
(* checkBoundaryCollision (unified ground+wall variant)                    *)
(***************************************************************************)
\* speed < 0.1
TooSlow_mut(speed) == speed < SCALE \div 100

TooSlow(speed) == speed < SCALE \div 10

\* the filter of the intersections, on hit.object.name
IsCollisionName_groundOnly(name) == Truthy(name) /\ Includes(name.s, S_ground)

IsCollisionName(name) ==
    /\ Truthy(name)
    /\ \/ Includes(name.s, S_ground)
       \/ Includes(name.s, S_wall)
       \/ Includes(name.s, S_barrier)
       \/ Includes(name.s, S_block)

IsCollisionHit(hit) == IsCollisionName(Name(hit.object))

HitType_mut(name) == IF Includes(name.s, S_wall) THEN "wall" ELSE "track_surface"

HitType(name) == IF Includes(name.s, S_ground) THEN "track_surface" ELSE "wall"

HitRecord(hit, dir) ==
    [kind |-> "hit",
     hit |-> TRUE,
     point |-> hit.point,
     normal |-> IF Objects[hit.object].face.has
                THEN Objects[hit.object].face.normal
                ELSE Negate(dir),
     distance |-> hit.distance,
     type |-> HitType(Name(hit.object))]

EdgeCheckOrigin(position, dir) ==
    LET edgeCheckDistance == 15 * (SCALE \div 10)
        moved == Add(position, MultiplyScalar(dir, edgeCheckDistance))
    IN [moved EXCEPT !.y = @ + 2 * SCALE]

TrackEdge_mut(position, dir) ==
    [kind |-> "hit",
     hit |-> TRUE,
     point |-> Add(position, MultiplyScalar(dir, 15 * (SCALE \div 10))),
     normal |-> Negate(dir),
     distance |-> 15 * (SCALE \div 10),
     type |-> "track_edge"]

TrackEdge(position, dir) ==
    [kind |-> "hit",
     hit |-> TRUE,
     point |-> Add(position, MultiplyScalar(dir, SCALE \div 2)),
     normal |-> Negate(dir),
     distance |-> SCALE \div 2,
     type |-> "track_edge"]

\* the module-level objects a probe reads and writes
Module == [raycaster |-> raycaster, direction |-> direction, origin |-> origin]

\* raycaster.set(origin, direction); raycaster.far = ...; raycaster.firstHitOnly = true
SetRay(rc, org, dir, far) ==
    [rc EXCEPT !.origin = org, !.direction = dir, !.far = far, !.firstHitOnly = TRUE]

SetEdgeRay_mut(rc, org) == [rc EXCEPT !.origin = org, !.direction = Down]

\* raycaster.set(edgeCheckOrigin, downDirection); raycaster.far = 5.0
SetEdgeRay(rc, org) == [rc EXCEPT !.origin = org, !.direction = Down, !.far = 5 * SCALE]

\* name && name.includes(...): includes() is reached only for a truthy name;
\* reached for a missing name it throws a TypeError
FilterThrows(name) == Truthy(name) /\ ~name.has

Throws(hits) == \E i \in 1..Len(hits) : FilterThrows(Name(hits[i].object))

\* the call ends in an exception
Error == [kind |-> "error"]

\* The edge probe, the primary ray having found no boundary; f is the frame of
\* the probe at that point.
EdgeOutcomes(m, q1, f, children) ==
    LET ray2 == SetEdgeRay(m.raycaster, EdgeCheckOrigin(f.position, f.direction))
        m2 == [m EXCEPT !.raycaster = ray2]
    IN { LET collisionAhead == SelectSeq(edgeIntersects, IsCollisionHit)
         IN [m |-> m2,
             position |-> f.position,
             velocity |-> f.velocity,
             queries |-> <<q1, [ray |-> ray2, hits |-> edgeIntersects]>>,
             result |-> IF Throws(edgeIntersects) THEN Error
                        ELSE IF Len(collisionAhead) = 0 THEN TrackEdge(f.position, f.direction)
                        ELSE Null]
         : edgeIntersects \in IntersectObjects(ray2, children) }

\* direction.copy(velocity).normalize(); origin.copy(position); origin.y += 0.5
ProbeFrame(m, position, velocity) ==
    LET f0 == [position |-> position, velocity |-> velocity,
               direction |-> m.direction, origin |-> m.origin]
        f1 == NormalizeAt(CopyAt(f0, "direction", "velocity"), "direction")
    IN AddYAt(CopyAt(f1, "origin", "position"), "origin", SCALE \div 2)

\* Every way one invocation of checkBoundaryCollision can go from the module
\* state m: the module state it leaves, its two argument vectors as it leaves
\* them, the queries it issues, what it returns.
ProbeOutcomes(m, position, velocity, lookAheadDistance, children) ==
    IF TooSlow(Length(velocity))
    THEN {[m |-> m, position |-> position, velocity |-> velocity,
           queries |-> <<>>, result |-> Null]}
    ELSE LET f == ProbeFrame(m, position, velocity)
             ray1 == SetRay(m.raycaster, f.origin, f.direction, lookAheadDistance)
             m1 == [raycaster |-> ray1, direction |-> f.direction, origin |-> f.origin]
         IN UNION { LET q1 == [ray |-> ray1, hits |-> intersects]
                        collisionIntersects == SelectSeq(intersects, IsCollisionHit)
                    IN IF Throws(intersects)
                       THEN {[m |-> m1, position |-> f.position, velocity |-> f.velocity,
                              queries |-> <<q1>>, result |-> Error]}
                       ELSE IF Len(collisionIntersects) > 0
                       THEN {[m |-> m1, position |-> f.position, velocity |-> f.velocity,
                              queries |-> <<q1>>,
                              result |-> HitRecord(collisionIntersects[1], f.direction)]}
                       ELSE EdgeOutcomes(m1, q1, f, children)
                    : intersects \in IntersectObjects(ray1, children) }

CheckBoundaryCollision(position, velocity, lookAheadDistance) ==
    /\ Idle
    /\ call' = [NoCall EXCEPT !.op = "checkBoundaryCollision", !.position = position,
                              !.velocity = velocity, !.lookAhead = lookAheadDistance,
                              !.wheelBefore = wheel, !.sceneBefore = scene]
    /\ \E out \in ProbeOutcomes(Module, position, velocity, lookAheadDistance, SceneChildren) :
          /\ raycaster' = out.m.raycaster
          /\ direction' = out.m.direction
          /\ origin' = out.m.origin
          /\ inputs' = [NoInputs EXCEPT !.position = out.position, !.velocity = out.velocity]
          /\ queries' = out.queries
          /\ result' = out.result
    /\ probes' = <<>>
    /\ UNCHANGED <<scene, lastChange, groundOnly, kartRaycaster, wheel>>

NextProbe ==
    \/ Consume
    \/ \E position \in Positions, velocity \in ProbeVelocities, lookAheadDistance \in LookAheads :
        CheckBoundaryCollision(position, velocity, lookAheadDistance)

SpecProbe == Init /\ [][NextProbe]_vars

(***************************************************************************)
(* checkMultiDirectionalCollision                                          *)
(***************************************************************************)
\* cos(PI / 4) = sin(PI / 4), in fixed point
Cos45 == Sqrt((SCALE * SCALE) \div 2)

\* division rounded to the nearest
RoundDiv(a, b) == (a + b \div 2) \div b

\* Vector3.applyAxisAngle(new Vector3(0, 1, 0), sign * Math.PI / 4)
ApplyAxisAngleY45(v, sign) ==
    Vec(RoundDiv(v.x * Cos45 + sign * v.z * Cos45, SCALE),
        v.y,
        RoundDiv(v.z * Cos45 - sign * v.x * Cos45, SCALE))

\* c.applyAxisAngle(new Vector3(0, 1, 0), sign * Math.PI / 4)
ApplyAxisAngleAt(f, c, sign) == [f EXCEPT ![c] = ApplyAxisAngleY45(@, sign)]

\* the vectors of the directions array: forward, +45 and -45 degrees
Directions == <<CloneCell("velocity", "dir0"), CloneCell("velocity", "dir1"),
                CloneCell("velocity", "dir2")>>

\* const directions = [velocity.clone().normalize(),
\*                     velocity.clone().normalize().applyAxisAngle(Y, PI / 4),
\*                     velocity.clone().normalize().applyAxisAngle(Y, -PI / 4)]
DirectionsFrame(position, velocity) ==
    LET f0 == [position |-> position, velocity |-> velocity,
               dir0 |-> Zero, dir1 |-> Zero, dir2 |-> Zero]
        f1 == NormalizeAt(CloneAt(f0, "velocity", "dir0"), Directions[1])
        f2 == ApplyAxisAngleAt(NormalizeAt(CloneAt(f1, "velocity", "dir1"), Directions[2]),
                               Directions[2], 1)
    IN ApplyAxisAngleAt(NormalizeAt(CloneAt(f2, "velocity", "dir2"), Directions[3]),
                        Directions[3], 0 - 1)

\* dir.multiplyScalar(velocity.length())
ProbeVelocity(f, dir) == MultiplyScalarAt(f, dir, Length(f.velocity))

\* the frame after a probe called with (position, dir) has returned: the two
\* vectors are the caller's own
AfterProbe(f, dir, out) == [[f EXCEPT !.position = out.position] EXCEPT ![dir] = out.velocity]

\* the loop as a short circuit would run it: no probe after the first collision
RECURSIVE RunProbes_shortCircuit(_, _, _, _, _)
RunProbes_shortCircuit(m, f, dirs, children, log) ==
    IF dirs = <<>> \/ (log # <<>> /\ log[Len(log)].result # Null)
    THEN {[m |-> m, f |-> f, log |-> log]}
    ELSE LET g == ProbeVelocity(f, Head(dirs))
         IN UNION { RunProbes_shortCircuit(out.m, AfterProbe(g, Head(dirs), out), Tail(dirs),
                        children,
                        Append(log, [velocity |-> g[Head(dirs)], queries |-> out.queries,
                                     result |-> out.result]))
                    : out \in ProbeOutcomes(m, g.position, g[Head(dirs)], 2 * SCALE, children) }

\* directions.forEach((dir, index) => { const collision = checkBoundaryCollision(...) ... }):
\* one probe per direction, in order, each starting from the module state the
\* one before left; an exception ends the loop
RECURSIVE RunProbes(_, _, _, _, _)
RunProbes(m, f, dirs, children, log) ==
    IF dirs = <<>> \/ (log # <<>> /\ log[Len(log)].result = Error)
    THEN {[m |-> m, f |-> f, log |-> log]}
    ELSE LET g == ProbeVelocity(f, Head(dirs))
         IN UNION { RunProbes(out.m, AfterProbe(g, Head(dirs), out), Tail(dirs), children,
                        Append(log, [velocity |-> g[Head(dirs)], queries |-> out.queries,
                                     result |-> out.result]))
                    : out \in ProbeOutcomes(m, g.position, g[Head(dirs)], 2 * SCALE, children) }

\* collisions.push({ ...collision, directionIndex: index })
WithDirectionIndex(collision, index) ==
    [kind |-> collision.kind, hit |-> collision.hit, point |-> collision.point,
     normal |-> collision.normal, distance |-> collision.distance,
     type |-> collision.type, directionIndex |-> index]

\* the collisions array after the loop
RECURSIVE Collisions(_, _)
Collisions(log, index) ==
    IF log = <<>> THEN <<>>
    ELSE (IF Head(log).result # Null
          THEN <<WithDirectionIndex(Head(log).result, index)>>
          ELSE <<>>) \o Collisions(Tail(log), index + 1)

ReturnedCollision_mut(collisions) ==
    IF Len(collisions) > 0 THEN collisions[Len(collisions)] ELSE Null

\* collisions.length > 0 ? collisions[0] : null
ReturnedCollision(collisions) == IF Len(collisions) > 0 THEN collisions[1] ELSE Null

CheckMultiDirectionalCollision(position, velocity) ==
    LET f == DirectionsFrame(position, velocity)
    IN /\ Idle
       /\ call' = [NoCall EXCEPT !.op = "checkMultiDirectionalCollision",
                                 !.position = position, !.velocity = velocity,
                                 !.wheelBefore = wheel, !.sceneBefore = scene]
       /\ \E run \in RunProbes(Module, f, Directions, SceneChildren, <<>>) :
             /\ inputs' = [NoInputs EXCEPT !.position = run.f.position,
                                           !.velocity = run.f.velocity]
             /\ raycaster' = run.m.raycaster
             /\ direction' = run.m.direction
             /\ origin' = run.m.origin
             /\ probes' = run.log
             /\ queries' = IF run.log = <<>> THEN <<>>
                           ELSE run.log[1].queries
                                \o (IF Len(run.log) > 1 THEN run.log[2].queries ELSE <<>>)
                                \o (IF Len(run.log) > 2 THEN run.log[3].queries ELSE <<>>)
             /\ result' = IF run.log[Len(run.log)].result = Error THEN Error
                          ELSE ReturnedCollision(Collisions(run.log, 0))
       /\ UNCHANGED <<scene, lastChange, groundOnly, kartRaycaster, wheel>>

\* speeds of the velocities of a multi-directional check: 0, 0.05 and the
\* largest; 0.1 itself is left out, where the rounding of the rotated
\* direction would decide on which side of the threshold a probe falls
MultiSpeeds == {0, SCALE \div 20, MaxSpeed * SCALE}

MultiVelocities == {MultiplyScalar(u, s) : u \in ProbeUnits, s \in MultiSpeeds}

\* a position away from the origin
CorePositions == {Vec(SCALE, 2 * SCALE, 0 - 3 * SCALE)}

\* scenes of one object: a ground, a wall, a faceless barrier, a non-boundary,
\* a nameless object
MultiScenes == { <<>>, <<1>>, <<3>>, <<4>>, <<6>>, <<11>> }

InitMulti == InitWith(MultiScenes)

NextMulti ==
    \/ Consume
    \/ \E position \in CorePositions, velocity \in MultiVelocities :
          CheckMultiDirectionalCollision(position, velocity)

SpecMulti == InitMulti /\ [][NextMulti]_vars

(***************************************************************************)
(* calculateBounceResponse                                                 *)
(***************************************************************************)
MinBounceSpeed == 2 * SCALE

\* if (reflectedVelocity.length() < minBounceSpeed)
\*     reflectedVelocity.normalize().multiplyScalar(minBounceSpeed)
BoostToMinimum(v) ==
    IF Length(v) < MinBounceSpeed THEN MultiplyScalar(Normalize(v), MinBounceSpeed) ELSE v

\* reflectedVelocity.copy(velocity); reflectedVelocity.reflect(hitNormal);
\* reflectedVelocity.multiplyScalar(bounceStrength); the boost to the minimum;
\* reflectedVelocity.clone().normalize()
BounceFrame(hitNormal, velocity, bounceStrength) ==
    LET f0 == [hitNormal |-> hitNormal, velocity |-> velocity,
               reflectedVelocity |-> Zero, direction |-> Zero]
        f1 == ReflectAt(CopyAt(f0, "reflectedVelocity", "velocity"),
                        "reflectedVelocity", "hitNormal")
        f2 == MultiplyScalarAt(f1, "reflectedVelocity", bounceStrength)
        f3 == [f2 EXCEPT !.reflectedVelocity = BoostToMinimum(@)]
    IN NormalizeAt(CloneAt(f3, "reflectedVelocity", "direction"),
                   CloneCell("reflectedVelocity", "direction"))

BounceResponse(hitNormal, velocity, bounceStrength) ==
    LET f == BounceFrame(hitNormal, velocity, bounceStrength)
    IN [kind |-> "bounce",
        velocity |-> f.reflectedVelocity,
        force |-> Length(f.reflectedVelocity),
        direction |-> f[CloneCell("reflectedVelocity", "direction")]]

CalculateBounceResponse(hitPoint, hitNormal, velocity, bounceStrength) ==
    /\ Idle
    /\ call' = [NoCall EXCEPT !.op = "calculateBounceResponse", !.hitPoint = hitPoint,
                              !.hitNormal = hitNormal, !.velocity = velocity,
                              !.strength = bounceStrength, !.wheelBefore = wheel, !.sceneBefore = scene]
    /\ queries' = <<>>
    /\ probes' = <<>>
    /\ result' = BounceResponse(hitNormal, velocity, bounceStrength)
    /\ inputs' = LET f == BounceFrame(hitNormal, velocity, bounceStrength)
                 IN [NoInputs EXCEPT !.velocity = f.velocity, !.hitNormal = f.hitNormal]
    /\ UNCHANGED <<scene, lastChange, groundOnly, raycaster, direction, origin, kartRaycaster, wheel>>

NextBounce ==
    \/ Consume
    \/ \E hitPoint \in HitPoints, hitNormal \in HitNormals,
          velocity \in BounceVelocities, bounceStrength \in BounceStrengths :
          CalculateBounceResponse(hitPoint, hitNormal, velocity, bounceStrength)

SpecBounce == Init /\ [][NextBounce]_vars

(***************************************************************************)
(* getTrackBoundaries                                                      *)
(***************************************************************************)
BoundaryType_mut(name) == IF Includes(name.s, S_wall) THEN "wall" ELSE "ground"

BoundaryType(name) == IF Includes(name.s, S_ground) THEN "ground" ELSE "wall"

\* scene.children.forEach(child => { if (...) boundaries.push({mesh, type, name}) })
RECURSIVE TrackBoundaries(_)
TrackBoundaries(children) ==
    IF children = <<>> THEN <<>>
    ELSE LET child == Head(children)
         IN (IF IsCollisionName(Name(child))
             THEN <<[mesh |-> child, type |-> BoundaryType(Name(child)), name |-> Name(child)]>>
             ELSE <<>>) \o TrackBoundaries(Tail(children))

GetTrackBoundaries ==
    /\ Idle
    /\ call' = [NoCall EXCEPT !.op = "getTrackBoundaries", !.wheelBefore = wheel, !.sceneBefore = scene]
    /\ queries' = <<>>
    /\ probes' = <<>>
    /\ inputs' = NoInputs
    /\ result' = IF \E i \in 1..Len(SceneChildren) : FilterThrows(Name(SceneChildren[i]))
                  THEN Error
                  ELSE [kind |-> "list", list |-> TrackBoundaries(SceneChildren)]
    /\ UNCHANGED <<scene, lastChange, groundOnly, raycaster, direction, origin, kartRaycaster, wheel>>

\* every scene of at most MaxChildren distinct objects
AllScenes ==
    UNION { {sc \in [1..n -> 1..Len(Objects)] : \A i, j \in 1..n : i # j => sc[i] # sc[j]}
            : n \in 0..MaxChildren }

InitBoundaries == InitWith(AllScenes)

NextBoundaries == Consume \/ GetTrackBoundaries

SpecBoundaries == InitBoundaries /\ [][NextBoundaries]_vars

(***************************************************************************)
(* isPositionOnTrack                                                       *)
(***************************************************************************)
WithinMaxDistance_mut(distanceToGround, maxDistance) == distanceToGround < maxDistance

WithinMaxDistance(distanceToGround, maxDistance) == distanceToGround <= maxDistance

IsPositionOnTrack(position, maxDistance) ==
    LET f == AddYAt(CopyAt([position |-> position, checkOrigin |-> Zero],
                           "checkOrigin", "position"), "checkOrigin", 2 * SCALE)
        ray == SetRay(raycaster, f.checkOrigin, Down, maxDistance + 2 * SCALE)
    IN /\ Idle
       /\ call' = [NoCall EXCEPT !.op = "isPositionOnTrack", !.position = position,
                                 !.maxDistance = maxDistance, !.wheelBefore = wheel, !.sceneBefore = scene]
       /\ raycaster' = ray
       /\ inputs' = [NoInputs EXCEPT !.position = f.position]
       /\ \E intersects \in IntersectObjects(ray, SceneChildren) :
             LET collisionHits == SelectSeq(intersects, IsCollisionHit)
             IN /\ queries' = <<[ray |-> ray, hits |-> intersects]>>
                /\ result' = IF Throws(intersects) THEN Error ELSE
                             [kind |-> "bool",
                              value |-> IF Len(collisionHits) > 0
                                        THEN WithinMaxDistance(
                                                 Abs(f.position.y - collisionHits[1].point.y),
                                                 maxDistance)
                                        ELSE FALSE]
       /\ probes' = <<>>
       /\ UNCHANGED <<scene, lastChange, groundOnly, direction, origin, kartRaycaster, wheel>>

NextOnTrack ==
    \/ Consume
    \/ \E position \in Positions, maxDistance \in MaxDistances :
          IsPositionOnTrack(position, maxDistance)

SpecOnTrack == Init /\ [][NextOnTrack]_vars

(***************************************************************************)
(* getGroundPosition: the per-wheel ground contact of the kart             *)
(***************************************************************************)
\* hit.point.y + 0.3
SafeY(hitY) == hitY + 3 * (SCALE \div 10)

IsOnDirt_mut(name, hitY) == name = Str(S_ground_dirt) /\ hitY <= SCALE \div 2

\* hit.object.name === "ground dirt" && hit.point.y < 0.5
IsOnDirt(name, hitY) == name = Str(S_ground_dirt) /\ hitY < SCALE \div 2

NoHitWheel_mut(w) == w

\* no intersection: wheel.current.isOnDirt = false, the position untouched
NoHitWheel(w) == [w EXCEPT !.isOnDirt = FALSE]

GetGroundPosition(mount) ==
    LET ray == [origin |-> mount, direction |-> Down, far |-> 3 * SCALE, firstHitOnly |-> TRUE]
    IN /\ Idle
       /\ call' = [NoCall EXCEPT !.op = "getGroundPosition", !.mount = mount,
                                 !.wheelBefore = wheel, !.sceneBefore = scene]
       /\ kartRaycaster' = ray
       /\ inputs' = NoInputs
       /\ \E intersects \in IntersectObjects(ray, scene) :
             /\ queries' = <<[ray |-> ray, hits |-> intersects]>>
             /\ IF Len(intersects) > 0
                THEN LET hit == intersects[1]
                         safeY == SafeY(hit.point.y)
                     IN /\ wheel' = [y |-> safeY,
                                     isOnDirt |-> IsOnDirt(Name(hit.object), hit.point.y)]
                        /\ result' = [kind |-> "number", value |-> safeY]
                ELSE /\ wheel' = NoHitWheel(wheel)
                     /\ result' = [kind |-> "number", value |-> wheel.y]
       /\ probes' = <<>>
       /\ UNCHANGED <<scene, lastChange, groundOnly, raycaster, direction, origin>>

NextWheel ==
    \/ Consume
    \/ \E mount \in Mounts : GetGroundPosition(mount)

SpecWheel == Init /\ [][NextWheel]_vars

(***************************************************************************)
(* The operations on the scene, one call after the other, over scenes of   *)
(* one object.                                                             *)
(***************************************************************************)
\* no object, a ground, a wall, an object of empty name, an object of no name
CoreScenes == { <<>>, <<1>>, <<3>>, <<10>>, <<11>> }

\* velocities of one oblique heading: zero, slow, fast
CoreVelocities ==
    {MultiplyScalar(Vec(6 * (SCALE \div 10), 0, 0 - 8 * (SCALE \div 10)), s) : s \in MultiSpeeds}

InitCore == InitWith(CoreScenes)

NextCore ==
    \/ Consume
    \/ \E position \in CorePositions, velocity \in CoreVelocities,
          lookAheadDistance \in LookAheads :
          CheckBoundaryCollision(position, velocity, lookAheadDistance)
    \/ \E hitPoint \in HitPoints, hitNormal \in HitNormals,
          velocity \in CoreVelocities, bounceStrength \in BounceStrengths :
          CalculateBounceResponse(hitPoint, hitNormal, velocity, bounceStrength)
    \/ GetTrackBoundaries
    \/ \E position \in CorePositions, maxDistance \in MaxDistances :
          IsPositionOnTrack(position, maxDistance)
    \/ \E position \in CorePositions, velocity \in CoreVelocities :
          CheckMultiDirectionalCollision(position, velocity)

SpecCore == InitCore /\ [][NextCore]_vars

(***************************************************************************)
(* The game changes scene.children between calls: objects are added,       *)
(* removed (a barrier destroyed) or renamed.                               *)
(***************************************************************************)
\* the objects the game adds and removes: a ground, a barrier, a non-boundary
SceneObjects == {1, 4, 6}

\* scene.add(object)
AddChild(o) ==
    /\ Idle
    /\ o \notin Range(scene)
    /\ Len(scene) < Cardinality(SceneObjects) - 1
    /\ scene' = Append(scene, o)
    /\ lastChange' = [op |-> "add", object |-> o, before |-> scene]
    /\ UNCHANGED <<groundOnly, raycaster, direction, origin, kartRaycaster, wheel, call, inputs,
                   queries, probes, result>>

\* scene.remove(object)
RemoveChild(i) ==
    /\ Idle
    /\ i \in 1..Len(scene)
    /\ scene' = SubSeq(scene, 1, i - 1) \o SubSeq(scene, i + 1, Len(scene))
    /\ lastChange' = [op |-> "remove", object |-> scene[i], before |-> scene]
    /\ UNCHANGED <<groundOnly, raycaster, direction, origin, kartRaycaster, wheel, call, inputs,
                   queries, probes, result>>

\* object.name = ...: an object id stands for a name with its geometry, so
\* the renamed child is the object o
RenameChild(i, o) ==
    /\ Idle
    /\ i \in 1..Len(scene)
    /\ o \notin Range(scene)
    /\ scene' = [scene EXCEPT ![i] = o]
    /\ lastChange' = [op |-> "rename", object |-> scene[i], before |-> scene]
    /\ UNCHANGED <<groundOnly, raycaster, direction, origin, kartRaycaster, wheel, call, inputs,
                   queries, probes, result>>

InitScene == InitWith({ <<>>, <<1, 4>> })

NextScene ==
    \/ Consume
    \/ \E o \in SceneObjects : AddChild(o)
    \/ \E i \in 1..Cardinality(SceneObjects) : RemoveChild(i)
    \/ \E i \in 1..Cardinality(SceneObjects), o \in SceneObjects : RenameChild(i, o)
    \/ \E position \in CorePositions, velocity \in CoreVelocities :
          CheckBoundaryCollision(position, velocity, 2 * SCALE)
    \/ GetTrackBoundaries
    \/ \E position \in CorePositions : IsPositionOnTrack(position, 3 * SCALE)

SpecScene == InitScene /\ [][NextScene]_vars

(***************************************************************************)
(* The ground-only variant of collisionDetection                           *)
(* (src/utils/collisionDetection.js), called beside the unified one with   *)
(* the arguments of the call under way.  The Spatial Query Provider is     *)
(* deterministic: a ray it has answered in this call gets the same answer. *)
(***************************************************************************)
\* the answers of the provider to a ray, given the queries already answered
Answers(ray, children, answered) ==
    IF \E k \in 1..Len(answered) : answered[k].ray = ray
    THEN {answered[k].hits : k \in {j \in 1..Len(answered) : answered[j].ray = ray}}
    ELSE IntersectObjects(ray, children)

IsGroundName_mut(name) == Truthy(name) /\ name.s = S_ground

\* hit.object.name && hit.object.name.includes('ground')
IsGroundName(name) == Truthy(name) /\ Includes(name.s, S_ground)

IsGroundHit(hit) == IsGroundName(Name(hit.object))

\* the module state of the ground-only variant
GroundOnlyModule ==
    [raycaster |-> groundOnly.raycaster, direction |-> groundOnly.direction,
     origin |-> groundOnly.origin]

\* the module state m with what the call did
GroundOnlyAfter(m, op, qs, r) ==
    [raycaster |-> m.raycaster, direction |-> m.direction, origin |-> m.origin,
     op |-> op, queries |-> qs, result |-> r]

\* checkBoundaryCollision of the ground-only variant
GroundOnlyCheckBoundaryCollision ==
    /\ call.op = "checkBoundaryCollision"
    /\ groundOnly.op = "none"
    /\ LET m == GroundOnlyModule
           op == "checkBoundaryCollision"
       IN IF TooSlow(Length(call.velocity))
          THEN groundOnly' = GroundOnlyAfter(m, op, <<>>, Null)
          ELSE LET f == ProbeFrame(m, call.position, call.velocity)
                   ray1 == SetRay(m.raycaster, f.origin, f.direction, call.lookAhead)
                   m1 == [raycaster |-> ray1, direction |-> f.direction, origin |-> f.origin]
               IN \E intersects \in Answers(ray1, SceneChildren, queries) :
                     LET q1 == [ray |-> ray1, hits |-> intersects]
                         groundIntersects == SelectSeq(intersects, IsGroundHit)
                     IN IF Throws(intersects)
                        THEN groundOnly' = GroundOnlyAfter(m1, op, <<q1>>, Error)
                        ELSE IF Len(groundIntersects) = 0
                        THEN LET ray2 == SetEdgeRay(ray1, EdgeCheckOrigin(f.position, f.direction))
                                 m2 == [m1 EXCEPT !.raycaster = ray2]
                             IN \E edgeIntersects \in Answers(ray2, SceneChildren, queries) :
                                   LET q2 == [ray |-> ray2, hits |-> edgeIntersects]
                                       groundAhead == SelectSeq(edgeIntersects, IsGroundHit)
                                   IN groundOnly' = GroundOnlyAfter(m2, op, <<q1, q2>>,
                                          IF Throws(edgeIntersects) THEN Error
                                          ELSE IF Len(groundAhead) = 0
                                          THEN TrackEdge(f.position, f.direction)
                                          ELSE Null)
                        ELSE groundOnly' = GroundOnlyAfter(m1, op, <<q1>>, Null)
    /\ UNCHANGED <<scene, lastChange, raycaster, direction, origin, kartRaycaster, wheel,
                   call, inputs, queries, probes, result>>

\* scene.children.forEach(child => { if (child.name && child.name.includes('ground'))
\*     boundaries.push({ mesh: child, type: 'ground', name: child.name }) })
RECURSIVE GroundOnlyTrackBoundaries(_)
GroundOnlyTrackBoundaries(children) ==
    IF children = <<>> THEN <<>>
    ELSE LET child == Head(children)
         IN (IF IsGroundName(Name(child))
             THEN <<[mesh |-> child, type |-> "ground", name |-> Name(child)]>>
             ELSE <<>>) \o GroundOnlyTrackBoundaries(Tail(children))

\* getTrackBoundaries of the ground-only variant
GroundOnlyGetTrackBoundaries ==
    /\ call.op = "getTrackBoundaries"
    /\ groundOnly.op = "none"
    /\ groundOnly' =
          GroundOnlyAfter(GroundOnlyModule, "getTrackBoundaries", <<>>,
              IF \E i \in 1..Len(SceneChildren) : FilterThrows(Name(SceneChildren[i]))
              THEN Error
              ELSE [kind |-> "list", list |-> GroundOnlyTrackBoundaries(SceneChildren)])
    /\ UNCHANGED <<scene, lastChange, raycaster, direction, origin, kartRaycaster, wheel,
                   call, inputs, queries, probes, result>>

\* isPositionOnTrack of the ground-only variant
GroundOnlyIsPositionOnTrack ==
    /\ call.op = "isPositionOnTrack"
    /\ groundOnly.op = "none"
    /\ LET m == GroundOnlyModule
           f == AddYAt(CopyAt([position |-> call.position, checkOrigin |-> Zero],
                              "checkOrigin", "position"), "checkOrigin", 2 * SCALE)
           ray == SetRay(m.raycaster, f.checkOrigin, Down, call.maxDistance + 2 * SCALE)
       IN \E intersects \in Answers(ray, SceneChildren, queries) :
             LET groundHits == SelectSeq(intersects, IsGroundHit)
             IN groundOnly' =
                   GroundOnlyAfter([m EXCEPT !.raycaster = ray], "isPositionOnTrack",
                       <<[ray |-> ray, hits |-> intersects]>>,
                       IF Throws(intersects) THEN Error
                       ELSE [kind |-> "bool",
                             value |-> IF Len(groundHits) > 0
                                       THEN WithinMaxDistance(
                                                Abs(f.position.y - groundHits[1].point.y),
                                                call.maxDistance)
                                       ELSE FALSE])
    /\ UNCHANGED <<scene, lastChange, raycaster, direction, origin, kartRaycaster, wheel,
                   call, inputs, queries, probes, result>>

\* scenes without and with walls, barriers and blocks
VariantScenes == { <<>>, <<1>>, <<6, 2>>, <<9, 7>>, <<3>>, <<1, 4>> }

InitVariants == InitWith(VariantScenes)

NextVariants ==
    \/ Consume
    \/ \E position \in CorePositions, velocity \in CoreVelocities,
          lookAheadDistance \in LookAheads :
          CheckBoundaryCollision(position, velocity, lookAheadDistance)
    \/ GetTrackBoundaries
    \/ \E position \in CorePositions, maxDistance \in MaxDistances :
          IsPositionOnTrack(position, maxDistance)
    \/ GroundOnlyCheckBoundaryCollision
    \/ GroundOnlyGetTrackBoundaries
    \/ GroundOnlyIsPositionOnTrack

SpecVariants == InitVariants /\ [][NextVariants]_vars

(***************************************************************************)
(* The whole core: any call, one after the other, both variants, over a    *)
(* scene the game changes between calls.                                   *)
(***************************************************************************)
Next ==
    \/ Consume
    \/ \E position \in Positions, velocity \in ProbeVelocities, lookAheadDistance \in LookAheads :
          CheckBoundaryCollision(position, velocity, lookAheadDistance)
    \/ \E hitPoint \in HitPoints, hitNormal \in HitNormals,
          velocity \in BounceVelocities, bounceStrength \in BounceStrengths :
          CalculateBounceResponse(hitPoint, hitNormal, velocity, bounceStrength)
    \/ GetTrackBoundaries
    \/ \E position \in Positions, maxDistance \in MaxDistances :
          IsPositionOnTrack(position, maxDistance)
    \/ \E position \in Positions, velocity \in MultiVelocities :
          CheckMultiDirectionalCollision(position, velocity)
    \/ \E mount \in Mounts : GetGroundPosition(mount)
    \/ \E o \in SceneObjects : AddChild(o)
    \/ \E i \in 1..Cardinality(SceneObjects) : RemoveChild(i)
    \/ \E i \in 1..Cardinality(SceneObjects), o \in SceneObjects : RenameChild(i, o)
    \/ GroundOnlyCheckBoundaryCollision
    \/ GroundOnlyGetTrackBoundaries
    \/ GroundOnlyIsPositionOnTrack

Spec == Init /\ [][Next]_vars

(***************************************************************************)
(* Vocabulary of the claims: the Boundary Classifier as the specification  *)
(* states it, and what the last call was and saw.                          *)
(***************************************************************************)
Classify(name) ==
    IF ~name.has \/ name.s = <<>> THEN "none"
    ELSE IF Includes(name.s, S_ground) THEN "ground"
    ELSE IF Includes(name.s, S_wall) \/ Includes(name.s, S_barrier) \/ Includes(name.s, S_block)
         THEN "wall"
    ELSE "none"

\* the indices of the boundary-classified hits of a list
BoundaryIdx(hits) == {i \in 1..Len(hits) : Classify(Name(hits[i].object)) # "none"}

\* the index of the first boundary-classified hit of a list, if there is one
FirstBoundaryIdx(hits) == {i \in BoundaryIdx(hits) : \A j \in BoundaryIdx(hits) : i <= j}

IsProbe == call.op = "checkBoundaryCollision"

ProbeSpeed == Length(call.velocity)

ProbeDir == Normalize(call.velocity)

\* the probe went past the degenerate case and its primary ray found no boundary
PrimaryClear ==
    /\ IsProbe
    /\ ProbeSpeed >= SCALE \div 10
    /\ Len(queries) >= 1
    /\ BoundaryIdx(queries[1].hits) = {}

\* C1: a probe with a velocity of magnitude < 0.1 (the zero vector included)
\* returns none and issues no ray query.
C1_LowSpeedReturnsNone ==
    (IsProbe /\ ProbeSpeed < SCALE \div 10) => (result = Null /\ queries = <<>>)

C1_Witness ==
    /\ IsProbe
    /\ call.velocity # Zero
    /\ ProbeSpeed < SCALE \div 10
    /\ result = Null

\* C2: at magnitude >= 0.1 the primary ray starts at position + (0,0.5,0), runs
\* along normalize(velocity) for lookAhead, and when it returns a boundary hit
\* the probe returns the record of the first such hit: its point and distance,
\* its face normal or else the negated direction, and type track_surface when
\* the name contains "ground", wall otherwise.
C2_PrimaryHitRecord ==
    (IsProbe /\ ProbeSpeed >= SCALE \div 10) =>
        /\ Len(queries) >= 1
        /\ queries[1].ray = [origin |-> Add(call.position, Vec(0, SCALE \div 2, 0)),
                             direction |-> ProbeDir,
                             far |-> call.lookAhead,
                             firstHitOnly |-> TRUE]
        /\ \A i \in FirstBoundaryIdx(queries[1].hits) :
              LET h == queries[1].hits[i]
                  o == Objects[h.object]
              IN /\ result.kind = "hit"
                 /\ result.point = h.point
                 /\ result.distance = h.distance
                 /\ result.normal = IF o.face.has THEN o.face.normal ELSE Negate(ProbeDir)
                 /\ result.type = IF Includes(o.name.s, S_ground) THEN "track_surface" ELSE "wall"
                 /\ Len(queries) = 1

\* a barrier without face normals, behind an object that is no boundary
C2_Witness ==
    /\ IsProbe
    /\ Len(queries) = 1
    /\ Len(queries[1].hits) = 2
    /\ Classify(Name(queries[1].hits[1].object)) = "none"
    /\ Name(queries[1].hits[2].object) = Str(S_barrier)
    /\ result.kind = "hit"
    /\ result.type = "wall"
    /\ result.normal = Negate(ProbeDir)

\* C3: at magnitude >= 0.1, when the primary ray returns no boundary hit the edge
\* probe runs from position + direction*1.5 + (0,2,0) straight down for 5.0, and
\* when it returns no boundary hit either the probe returns a track_edge record
\* with distance 0.5, point = position + direction*0.5 and normal = -direction,
\* whatever lookAhead is.
C3_TrackEdgeRecord ==
    PrimaryClear =>
        /\ Len(queries) = 2
        /\ queries[2].ray = [origin |-> Add(Add(call.position,
                                                MultiplyScalar(ProbeDir, 15 * (SCALE \div 10))),
                                            Vec(0, 2 * SCALE, 0)),
                             direction |-> Vec(0, 0 - SCALE, 0),
                             far |-> 5 * SCALE,
                             firstHitOnly |-> TRUE]
        /\ BoundaryIdx(queries[2].hits) = {} =>
              /\ result.kind = "hit"
              /\ result.type = "track_edge"
              /\ result.distance = SCALE \div 2
              /\ result.point = Add(call.position, MultiplyScalar(ProbeDir, SCALE \div 2))
              /\ result.normal = Negate(ProbeDir)

\* a track edge in a scene that is not empty, away from the origin, with the
\* shorter look-ahead, both rays having hit something that is no boundary
C3_Witness ==
    /\ PrimaryClear
    /\ Len(queries) = 2
    /\ queries[1].hits # <<>>
    /\ queries[2].hits # <<>>
    /\ call.position # Zero
    /\ call.lookAhead = SCALE
    /\ result.kind = "hit"
    /\ result.type = "track_edge"

\* C4: the probe returns none when the primary ray finds no boundary and the
\* edge probe finds one, and only then or in the degenerate low-speed case.
C4_NoneIffClear ==
    IsProbe =>
        (result = Null <=>
            \/ ProbeSpeed < SCALE \div 10
            \/ /\ PrimaryClear
               /\ Len(queries) = 2
               /\ BoundaryIdx(queries[2].hits) # {})

\* the edge probe found a wall below and ahead
C4_Witness ==
    /\ PrimaryClear
    /\ Len(queries) = 2
    /\ \E i \in BoundaryIdx(queries[2].hits) : Classify(Name(queries[2].hits[i].object)) = "wall"
    /\ result = Null

IsBounce == call.op = "calculateBounceResponse"

\* r = s * (v - 2 (v . n) n), from the arguments of the call
ScaledReflection ==
    LET v == call.velocity
        n == call.hitNormal
        d == (v.x * n.x + v.y * n.y + v.z * n.z) \div SCALE
    IN Vec(((v.x - (2 * d * n.x) \div SCALE) * call.strength) \div SCALE,
           ((v.y - (2 * d * n.y) \div SCALE) * call.strength) \div SCALE,
           ((v.z - (2 * d * n.z) \div SCALE) * call.strength) \div SCALE)

\* C5: the force of every Bounce Response is at least the minimum bounce speed
\* 2.0, whatever the hit point, the normal, the incoming velocity and the strength.
C5_ForceAtLeastMinimum ==
    IsBounce => result.force >= 2 * SCALE

\* C6: the returned velocity is r when |r| >= 2.0 and has magnitude exactly 2.0
\* along normalize(r) when |r| < 2.0; the force is the magnitude of the returned
\* velocity and the direction its normalisation.
C6_BounceFormula ==
    IsBounce =>
        LET r == ScaledReflection
        IN /\ Length(r) >= 2 * SCALE => result.velocity = r
           /\ Length(r) < 2 * SCALE =>
                 /\ Length(result.velocity) = 2 * SCALE
                 /\ Normalize(result.velocity) = Normalize(r)
           /\ result.force = Length(result.velocity)
           /\ result.direction = Normalize(result.velocity)

IsBoundaries == call.op = "getTrackBoundaries"

\* C7: getTrackBoundaries returns one entry (mesh, type, name) for each scene
\* child that classifies as ground or wall and none for any other child, in
\* scene order, the type being ground whenever the name contains "ground".
C7_BoundariesExact ==
    IsBoundaries =>
        LET L == result.list
        IN /\ \A k \in 1..Len(L) :
                 /\ \E i \in 1..Len(scene) : scene[i] = L[k].mesh
                 /\ L[k].name = Name(L[k].mesh)
                 /\ L[k].type = Classify(L[k].name)
           /\ \A i \in 1..Len(scene) :
                 Cardinality({k \in 1..Len(L) : L[k].mesh = scene[i]})
                     = IF Classify(Name(scene[i])) \in {"ground", "wall"} THEN 1 ELSE 0
           /\ \A k1, k2 \in 1..Len(L) :
                 k1 < k2 => \E i1, i2 \in 1..Len(scene) :
                               /\ i1 < i2
                               /\ scene[i1] = L[k1].mesh
                               /\ scene[i2] = L[k2].mesh

\* a child that is no boundary between two that are, one of them named for a
\* wall and for the ground at once
C7_Witness ==
    /\ IsBoundaries
    /\ Len(scene) = 3
    /\ Classify(Name(scene[2])) = "none"
    /\ Len(result.list) = 2
    /\ result.list[1].type = "wall"
    /\ result.list[2].name = Str(S_wall_ground)
    /\ result.list[2].type = "ground"

IsWheel == call.op = "getGroundPosition"

\* the wheel's ray is the one the resolver is to cast
WheelRay ==
    /\ Len(queries) = 1
    /\ queries[1].ray = [origin |-> call.mount, direction |-> Vec(0, 0 - SCALE, 0),
                         far |-> 3 * SCALE, firstHitOnly |-> TRUE]

\* C8, as claimed: on a hit the wheel's height becomes hit.point.y + 0.3, which is
\* returned, and onDirt is true exactly when the hit object's name contains
\* "ground dirt" and hit.point.y < 0.5.
C8_DirtByContainment ==
    (IsWheel /\ WheelRay /\ queries[1].hits # <<>>) =>
        LET hit == queries[1].hits[1]
            name == Name(hit.object)
        IN /\ wheel.y = hit.point.y + 3 * (SCALE \div 10)
           /\ result = [kind |-> "number", value |-> hit.point.y + 3 * (SCALE \div 10)]
           /\ wheel.isOnDirt <=> /\ name.has
                                 /\ Includes(name.s, S_ground_dirt)
                                 /\ hit.point.y < SCALE \div 2

\* C8, amended: ... and onDirt is true exactly when the hit object's name is
\* "ground dirt" and hit.point.y < 0.5; in every other hit case it is false.
C8_DirtByEquality ==
    IsWheel =>
        /\ WheelRay
        /\ queries[1].hits # <<>> =>
              LET hit == queries[1].hits[1]
                  name == Name(hit.object)
              IN /\ wheel.y = hit.point.y + 3 * (SCALE \div 10)
                 /\ result = [kind |-> "number", value |-> hit.point.y + 3 * (SCALE \div 10)]
                 /\ wheel.isOnDirt <=> /\ name.has
                                       /\ name.s = S_ground_dirt
                                       /\ hit.point.y < SCALE \div 2

\* a wheel on dirt leaves it on the next frame, over dirt that lies at the threshold
C8_Witness ==
    /\ IsWheel
    /\ queries[1].hits # <<>>
    /\ Name(queries[1].hits[1].object) = Str(S_ground_dirt)
    /\ queries[1].hits[1].point.y = SCALE \div 2
    /\ call.wheelBefore.isOnDirt
    /\ ~wheel.isOnDirt
    /\ wheel.y = 8 * (SCALE \div 10)

\* the frame's ray hit dirt below the threshold
HitDirtBelowThreshold ==
    /\ queries[1].hits # <<>>
    /\ Name(queries[1].hits[1].object).has
    /\ Includes(Name(queries[1].hits[1].object).s, S_ground_dirt)
    /\ queries[1].hits[1].point.y < SCALE \div 2

\* C9: with no hit the wheel keeps its height, that height is returned and
\* onDirt is false whatever it was; so after a frame onDirt is true only if that
\* frame's ray hit dirt below the threshold.
C9_NoHitKeepsHeight ==
    IsWheel =>
        /\ queries[1].hits = <<>> =>
              /\ wheel.y = call.wheelBefore.y
              /\ result = [kind |-> "number", value |-> call.wheelBefore.y]
              /\ ~wheel.isOnDirt
        /\ wheel.isOnDirt => HitDirtBelowThreshold

\* a wheel that was on dirt, and resolved above the ground, finds nothing below
C9_Witness ==
    /\ IsWheel
    /\ queries[1].hits = <<>>
    /\ call.wheelBefore.isOnDirt
    /\ call.wheelBefore.y # 0
    /\ ~wheel.isOnDirt
    /\ wheel.y = call.wheelBefore.y

IsOnTrack == call.op = "isPositionOnTrack"

\* C10: isPositionOnTrack casts its ray down from position + (0,2,0) for
\* maxDistance + 2.0 and returns true exactly when the first boundary-classified
\* hit lies within maxDistance of position.y, the distance maxDistance included;
\* without a boundary-classified hit it returns false.
C10_OnTrackIff ==
    IsOnTrack =>
        /\ Len(queries) = 1
        /\ queries[1].ray = [origin |-> Add(call.position, Vec(0, 2 * SCALE, 0)),
                             direction |-> Vec(0, 0 - SCALE, 0),
                             far |-> call.maxDistance + 2 * SCALE,
                             firstHitOnly |-> TRUE]
        /\ result.kind = "bool"
        /\ result.value <=>
              \E i \in FirstBoundaryIdx(queries[1].hits) :
                 Abs(call.position.y - queries[1].hits[i].point.y) <= call.maxDistance

\* the first boundary hit, behind one that is no boundary, at exactly maxDistance
C10_Witness ==
    /\ IsOnTrack
    /\ result.value
    /\ \E i \in FirstBoundaryIdx(queries[1].hits) :
          /\ i > 1
          /\ Abs(call.position.y - queries[1].hits[i].point.y) = call.maxDistance

\* the last call was a multi-directional check
IsMulti == call.op = "checkMultiDirectionalCollision"

\* the probes of the last call that returned a collision
Colliding == {i \in 1..Len(probes) : probes[i].result # Null}

\* y component of the cross product: positive when b is a counterclockwise of
\* a seen from +Y, that is a rotated by a positive angle about the Y axis
TurnY(a, b) == (a.z * b.x - a.x * b.z) \div SCALE

\* a and b, both of length about len, are 45 degrees apart (cos 45 = 0.7071,
\* to the rounding of the fixed point)
At45(a, b, len) ==
    Abs(Dot(a, b) - (((len * len) \div SCALE) * 7071) \div 10000) <= len \div 100 + 2

\* what checkBoundaryCollision returns for the velocity of the probe p from
\* position, given the hits its ray queries got
ProbeContract(p, position, lookAhead) ==
    LET d == Normalize(p.velocity)
        q == p.queries
    IN IF Length(p.velocity) < SCALE \div 10
       THEN p.result = Null /\ q = <<>>
       ELSE /\ Len(q) >= 1
            /\ q[1].ray = [origin |-> Add(position, Vec(0, SCALE \div 2, 0)), direction |-> d,
                           far |-> lookAhead, firstHitOnly |-> TRUE]
            /\ IF BoundaryIdx(q[1].hits) # {}
               THEN /\ Len(q) = 1
                    /\ \A i \in FirstBoundaryIdx(q[1].hits) :
                          LET h == q[1].hits[i]
                              o == Objects[h.object]
                          IN /\ p.result.kind = "hit"
                             /\ p.result.hit
                             /\ p.result.point = h.point
                             /\ p.result.distance = h.distance
                             /\ p.result.normal = IF o.face.has THEN o.face.normal ELSE Negate(d)
                             /\ p.result.type = IF Classify(o.name) = "ground"
                                                THEN "track_surface" ELSE "wall"
               ELSE /\ Len(q) = 2
                    /\ q[2].ray = [origin |-> Add(Add(position,
                                                      MultiplyScalar(d, 15 * (SCALE \div 10))),
                                                  Vec(0, 2 * SCALE, 0)),
                                   direction |-> Vec(0, 0 - SCALE, 0),
                                   far |-> 5 * SCALE, firstHitOnly |-> TRUE]
                    /\ IF BoundaryIdx(q[2].hits) # {}
                       THEN p.result = Null
                       ELSE /\ p.result.kind = "hit"
                            /\ p.result.hit
                            /\ p.result.type = "track_edge"
                            /\ p.result.distance = SCALE \div 2
                            /\ p.result.point = Add(position, MultiplyScalar(d, SCALE \div 2))
                            /\ p.result.normal = Negate(d)

\* C11: the multi-directional check probes forward, then +45 degrees, then -45
\* degrees about the vertical axis, and returns the first result that is not
\* none, in that order, labelled with the zero-based index of its direction;
\* it returns none exactly when no probe returned a collision, and so whenever
\* the speed is below 0.1.
C11_FirstCollisionInOrder ==
    IsMulti =>
        /\ \A i \in 1..Len(probes) : Length(probes[i].velocity) <= ProbeSpeed
        /\ ProbeSpeed >= SCALE \div 10 =>
              /\ probes[1].velocity = call.velocity
              /\ TurnY(call.velocity, probes[2].velocity) > 0
              /\ TurnY(call.velocity, probes[3].velocity) < 0
              /\ At45(call.velocity, probes[2].velocity, ProbeSpeed)
              /\ At45(call.velocity, probes[3].velocity, ProbeSpeed)
        /\ \A i \in 1..Len(probes) : ProbeContract(probes[i], call.position, 2 * SCALE)
        /\ (result = Null) <=> (Colliding = {})
        /\ ProbeSpeed < SCALE \div 10 => result = Null
        /\ Colliding # {} =>
              LET first == CHOOSE i \in Colliding : \A j \in Colliding : i <= j
                  r == probes[first].result
              IN /\ result.directionIndex = first - 1
                 /\ result.hit = r.hit
                 /\ result.point = r.point
                 /\ result.normal = r.normal
                 /\ result.distance = r.distance
                 /\ result.type = r.type

\* a check whose forward probe is clear and whose +45 and -45 probes both collide
C11_Witness ==
    /\ IsMulti
    /\ Len(probes) = 3
    /\ probes[1].result = Null
    /\ probes[2].result # Null
    /\ probes[3].result # Null
    /\ result # Null
    /\ result.directionIndex = 1

\* C13: the multi-directional check is short-circuit: the number of
\* checkBoundaryCollision invocations is the index of the first non-none probe
\* plus one (all three when every probe returns none), and no ray query is
\* issued for the directions after it.
C13_ShortCircuit ==
    IsMulti =>
        /\ Len(probes) = IF Colliding = {} THEN 3
                         ELSE CHOOSE i \in Colliding : \A j \in Colliding : i <= j
        /\ \A i \in 1..Len(probes) : \A j \in Colliding : j < i => probes[i].queries = <<>>

\* the object has a name to classify: present and not empty
Named(o) == Objects[o].name.has /\ Objects[o].name.s # <<>>

\* some hit of the list is on a named object
AnyNamed(hits) == \E i \in 1..Len(hits) : Named(hits[i].object)

\* the record of a primary hit or of a track edge, looked at without its label
IsHitRecord(r) == r.kind = "hit" /\ r.type \in {"track_surface", "wall", "track_edge"}

\* C12: every core operation is total over scenes: its outcome is a Hit
\* Record, none, a list or a boolean and never an error, the empty scene
\* included; objects and hits with a missing or empty name are left out of the
\* boundary list and never count as ground or wall for a probe, an edge probe
\* or an on-track check.
C12_TotalOverScenes ==
    /\ result.kind # "error"
    /\ IsProbe => (result = Null \/ IsHitRecord(result))
    /\ IsMulti => (result = Null \/ (IsHitRecord(result) /\ result.directionIndex \in 0..2))
    /\ IsBoundaries =>
          /\ result.kind = "list"
          /\ \A i \in 1..Len(result.list) : Named(result.list[i].mesh)
          /\ \A i \in 1..Len(scene) :
                ~Named(scene[i]) => \A j \in 1..Len(result.list) : result.list[j].mesh # scene[i]
    /\ IsOnTrack =>
          /\ result.kind = "bool"
          /\ result.value => AnyNamed(queries[1].hits)
    /\ (IsProbe /\ ProbeSpeed >= SCALE \div 10) =>
          /\ (result # Null /\ result.type # "track_edge") => AnyNamed(queries[1].hits)
          /\ result = Null => (Len(queries) = 2 /\ AnyNamed(queries[2].hits))
    /\ IsMulti =>
          \A i \in 1..Len(probes) :
             LET p == probes[i]
             IN Length(p.velocity) >= SCALE \div 10 =>
                   /\ (p.result # Null /\ p.result.type # "track_edge")
                         => AnyNamed(p.queries[1].hits)
                   /\ p.result = Null => (Len(p.queries) = 2 /\ AnyNamed(p.queries[2].hits))

\* a probe whose two rays both hit an object without a name, and which reports
\* a track edge all the same
C12_Witness ==
    /\ IsProbe
    /\ Len(queries) = 2
    /\ queries[1].hits # <<>>
    /\ queries[2].hits # <<>>
    /\ ~AnyNamed(queries[1].hits)
    /\ ~AnyNamed(queries[2].hits)
    /\ ~Objects[queries[1].hits[1].object].name.has
    /\ result # Null
    /\ result.type = "track_edge"

\* the primary ray of a probe from position with this velocity and look-ahead
PrimaryRayOf(position, velocity, lookAhead) ==
    [origin |-> Vec(position.x, position.y + SCALE \div 2, position.z),
     direction |-> Normalize(velocity),
     far |-> lookAhead,
     firstHitOnly |-> TRUE]

\* the edge ray of a probe from position with this velocity
EdgeRayOf(position, velocity) ==
    LET d == Normalize(velocity)
    IN [origin |-> Vec(position.x + (d.x * 15 * (SCALE \div 10)) \div SCALE,
                       position.y + (d.y * 15 * (SCALE \div 10)) \div SCALE + 2 * SCALE,
                       position.z + (d.z * 15 * (SCALE \div 10)) \div SCALE),
        direction |-> Vec(0, 0 - SCALE, 0),
        far |-> 5 * SCALE,
        firstHitOnly |-> TRUE]

\* the rays of the queries qs are those of one probe, primary then edge
ProbeRays(qs, position, velocity, lookAhead) ==
    /\ Len(qs) <= 2
    /\ Len(qs) >= 1 => qs[1].ray = PrimaryRayOf(position, velocity, lookAhead)
    /\ Len(qs) = 2 => qs[2].ray = EdgeRayOf(position, velocity)

\* the queries of all the probes of the last call, in the order issued
RECURSIVE QueriesOf(_)
QueriesOf(log) == IF log = <<>> THEN <<>> ELSE Head(log).queries \o QueriesOf(Tail(log))

\* C14: whatever calls came before, every ray query through the shared
\* raycaster has the origin, direction and far of the call that issues it
\* (primary: position + (0,0.5,0), normalize(velocity), lookAhead; edge:
\* position + direction*1.5 + (0,2,0), down, 5.0; on-track: position + (0,2,0),
\* down, maxDistance + 2.0), with firstHitOnly on, and the raycaster is left
\* holding the last of them.
C14_RaysOfTheIssuingCall ==
    /\ IsProbe => ProbeRays(queries, call.position, call.velocity, call.lookAhead)
    /\ IsOnTrack =>
          /\ Len(queries) = 1
          /\ queries[1].ray = [origin |-> Vec(call.position.x, call.position.y + 2 * SCALE,
                                              call.position.z),
                               direction |-> Vec(0, 0 - SCALE, 0),
                               far |-> call.maxDistance + 2 * SCALE,
                               firstHitOnly |-> TRUE]
    /\ IsMulti =>
          /\ queries = QueriesOf(probes)
          /\ \A i \in 1..Len(probes) :
                /\ ProbeRays(probes[i].queries, call.position, probes[i].velocity, 2 * SCALE)
                /\ i = 1 => probes[i].velocity = call.velocity
                /\ i > 1 => At45(call.velocity, probes[i].velocity, ProbeSpeed)
    /\ ((IsProbe \/ IsOnTrack \/ IsMulti) /\ queries # <<>>) =>
          raycaster = queries[Len(queries)].ray

\* an on-track check after a probe that left the raycaster with another far,
\* origin and direction: the scratch direction still points along that probe
C14_Witness ==
    /\ IsOnTrack
    /\ direction # Zero
    /\ call.maxDistance = SCALE
    /\ queries[1].ray.far = 3 * SCALE
    /\ queries[1].ray.origin # origin

\* C15: no core operation mutates its inputs: after a call the scene's
\* children (membership, order, names) and the caller's position, velocity and
\* hit-normal vectors are as they were when the call began.
C15_InputsUntouched ==
    (IsProbe \/ IsBounce \/ IsBoundaries \/ IsOnTrack \/ IsMulti) =>
        /\ scene = call.sceneBefore
        /\ inputs.position = call.position
        /\ inputs.velocity = call.velocity
        /\ inputs.hitNormal = call.hitNormal

\* a multi-directional check at speed 3 that normalized, rotated and rescaled
\* its three directions and ran all three probes, the caller's velocity and
\* position being what they were
C15_Witness ==
    /\ IsMulti
    /\ ProbeSpeed = MaxSpeed * SCALE
    /\ Len(probes) = 3
    /\ probes[2].velocity # call.velocity
    /\ probes[3].velocity # call.velocity
    /\ direction # Normalize(call.velocity)
    /\ call.position # Zero
    /\ inputs.velocity = call.velocity
    /\ inputs.position = call.position

\* the objects hit by the queries of the last call
ObjectsHit ==
    UNION { {queries[k].hits[i].object : i \in 1..Len(queries[k].hits)} : k \in 1..Len(queries) }

\* the boundary-classified children of the scene as it is, in order
LiveBoundaries == SelectSeq(scene, LAMBDA o : Classify(Name(o)) # "none")

\* C16: boundary surfaces are never cached: whatever was added, removed or
\* renamed between calls, getTrackBoundaries lists the boundaries of the
\* scene as it is at the call, and the rays of checkBoundaryCollision and
\* isPositionOnTrack hit only objects that are in the scene at the call; a
\* removed barrier is not reported by the next call and an added one is.
C16_LiveScene ==
    /\ IsBoundaries =>
          /\ Len(result.list) = Len(LiveBoundaries)
          /\ \A k \in 1..Len(result.list) : result.list[k].mesh = LiveBoundaries[k]
    /\ (IsProbe \/ IsOnTrack) => ObjectsHit \subseteq Range(scene)
    /\ (lastChange.op \in {"remove", "rename"} /\ lastChange.object \notin Range(scene)) =>
          /\ IsBoundaries =>
                \A k \in 1..Len(result.list) : result.list[k].mesh # lastChange.object
          /\ (IsProbe \/ IsOnTrack) => lastChange.object \notin ObjectsHit
    /\ (lastChange.op = "add" /\ IsBoundaries /\ Classify(Name(lastChange.object)) # "none") =>
          \E k \in 1..Len(result.list) : result.list[k].mesh = lastChange.object

\* the barrier was removed from a scene that keeps its ground, and the listing
\* that follows has the ground alone
C16_Witness ==
    /\ IsBoundaries
    /\ lastChange.op = "remove"
    /\ Name(lastChange.object) = Str(S_barrier)
    /\ lastChange.before = <<1, 4>>
    /\ Len(result.list) = 1
    /\ result.list[1].mesh = 1

\* no object of the scene has a name containing "wall", "barrier" or "block"
WallFree ==
    \A i \in 1..Len(scene) :
       LET n == Objects[scene[i]].name
       IN n.has => ~(Includes(n.s, S_wall) \/ Includes(n.s, S_barrier) \/ Includes(n.s, S_block))

\* the record is that of a track edge
IsTrackEdge(r) == r # Null /\ r.kind = "hit" /\ r.type = "track_edge"

\* the primary ray of the last probe hit a ground
PrimaryGroundHit ==
    /\ Len(queries) >= 1
    /\ \E i \in 1..Len(queries[1].hits) : Classify(Name(queries[1].hits[i].object)) = "ground"

\* C17: on a scene with no name containing "wall", "barrier" or "block", the
\* ground-only variant, run beside the unified one on the same inputs, returns
\* the same boundary list and the same on-track answer; its probe returns a
\* track_edge record exactly when the unified probe does, with the same point,
\* normal and distance; and the two probes differ only when the primary ray
\* hit a ground: none from the ground-only variant, track_surface from the
\* unified one.
C17_VariantsAgree ==
    (WallFree /\ groundOnly.op # "none") =>
        /\ groundOnly.op = call.op
        /\ (IsBoundaries \/ IsOnTrack) => groundOnly.result = result
        /\ IsProbe =>
              /\ IsTrackEdge(groundOnly.result) <=> IsTrackEdge(result)
              /\ IsTrackEdge(result) =>
                    /\ groundOnly.result.point = result.point
                    /\ groundOnly.result.normal = result.normal
                    /\ groundOnly.result.distance = result.distance
              /\ (groundOnly.result # result) <=> (ProbeSpeed >= SCALE \div 10 /\ PrimaryGroundHit)
              /\ (ProbeSpeed >= SCALE \div 10 /\ PrimaryGroundHit) =>
                    /\ groundOnly.result = Null
                    /\ result.kind = "hit"
                    /\ result.type = "track_surface"

\* the primary ray went through an object that is no boundary and hit the
\* dirt ground: none beside track_surface
C17_Witness ==
    /\ IsProbe
    /\ WallFree
    /\ groundOnly.op = "checkBoundaryCollision"
    /\ Len(queries) = 1
    /\ Len(queries[1].hits) = 2
    /\ Name(queries[1].hits[2].object) = Str(S_ground_dirt)
    /\ groundOnly.result = Null
    /\ result # Null
    /\ result.type = "track_surface"

====
